---------------------------- MODULE Spec2Model ----------------------------
(***************************************************************************)
(* A model of cargotecture's manifest-to-model extraction                  *)
(* (src/src/parse_dockerfile.rs) and topology validation                   *)
(* (src/src/parse_compose.rs).                                             *)
(*                                                                         *)
(* Text is modelled as a sequence of one-character strings, so that        *)
(* splitting, trimming, case folding and number parsing are computed       *)
(* character by character as the code computes them.                       *)
(***************************************************************************)
EXTENDS Integers, Sequences, FiniteSets, TLC

VARIABLES
    pc,            \* position of the operation being run
    input,         \* value extractors: the raw argument text
    result,        \* value extractors: the Port value returned
    path,          \* parse_dockerfile: the path it is given
    fileKind,      \* the path names a "file" or a "directory", or cannot be opened
    manifest,      \* what Dockerfile::from_reader makes of the file
    stages,        \* extract_dockerblock: dockerfile.iter_stages()
    stageIdx,      \* extract_dockerblock: stages entered so far
    insIdx,        \* instructions of the current stage handled so far
    name,          \* extract_dockerblock's locals
    base_image,
    labels,
    exposed_ports,
    volumes,
    containerfile,
    block,         \* the ParsedContainer built
    document,      \* what serde_yaml::from_reader makes of the reader
    compose,       \* parse_composefile's local: the Compose model
    verdict,       \* what compose.validate() returned
    outcome,       \* what parse_composefile returned
    container,     \* the ParsedContainer the renderers are given
    labelIter,     \* the order in which container.labels iterates
    twinIter,      \* that order in a second model with the same content
    package,       \* sysml_cargotecture_package(container)
    twinPackage,   \* the package of the second model
    activity       \* the activity diagram of container

exVars == <<input, result>>
envVars == <<path, fileKind, manifest>>
walkVars == <<stages, stageIdx, insIdx, name, base_image, labels, exposed_ports,
              volumes, containerfile>>
dfVars == <<envVars, walkVars, block>>
cmpVars == <<document, compose, verdict, outcome>>
rndVars == <<container, labelIter, twinIter, package, twinPackage, activity>>
vars == <<pc, exVars, dfVars, cmpVars, rndVars>>

---------------------------------------------------------------------------
(* Bounds of the model *)

\* Port numbers 0..MaxSmallPort are all tried.
MaxSmallPort == 12
\* Port numbers within PortWindow of the u16 limit (and of twice, and ten
\* times it) are all tried.
PortWindow == 2
\* Up to MaxLeadingZeros zeros are put in front of a port number.
MaxLeadingZeros == 1

---------------------------------------------------------------------------
(* Text helpers *)

Digits == <<"0", "1", "2", "3", "4", "5", "6", "7", "8", "9">>
DigitSet == {Digits[i] : i \in 1..10}

\* char::is_whitespace, restricted to the characters the model uses
WhiteSpace == {" ", "\t"}

\* u16::MAX
U16Max == 65535

DigitValue(c) == (CHOOSE i \in 1..10 : Digits[i] = c) - 1

RECURSIVE ToDecimal(_)
\* The decimal text of a natural number (Display for integers).
ToDecimal(n) ==
    IF n < 10 THEN <<Digits[n + 1]>>
    ELSE Append(ToDecimal(n \div 10), Digits[(n % 10) + 1])

RECURSIVE Zeros(_)
Zeros(k) == IF k = 0 THEN <<>> ELSE <<"0">> \o Zeros(k - 1)

RECURSIVE TrimStart(_)
TrimStart(s) ==
    IF s # <<>> /\ Head(s) \in WhiteSpace THEN TrimStart(Tail(s)) ELSE s

RECURSIVE TrimEnd(_)
TrimEnd(s) ==
    IF s # <<>> /\ s[Len(s)] \in WhiteSpace
    THEN TrimEnd(SubSeq(s, 1, Len(s) - 1))
    ELSE s

\* str::trim
Trim(s) == TrimEnd(TrimStart(s))

\* char::to_lowercase for the letters the model uses
LowerChar(c) ==
    CASE c = "T" -> "t"
      [] c = "C" -> "c"
      [] c = "P" -> "p"
      [] c = "U" -> "u"
      [] c = "D" -> "d"
      [] c = "B" -> "b"
      [] OTHER -> c

UpperChar(c) ==
    CASE c = "t" -> "T"
      [] c = "c" -> "C"
      [] c = "p" -> "P"
      [] c = "u" -> "U"
      [] c = "d" -> "D"
      [] c = "b" -> "B"
      [] OTHER -> c

\* str::to_lowercase
ToLowercase(s) == [i \in 1..Len(s) |-> LowerChar(s[i])]

RECURSIVE SplitFrom(_, _, _)
SplitFrom(s, sep, cur) ==
    IF s = <<>> THEN <<cur>>
    ELSE IF Head(s) = sep THEN <<cur>> \o SplitFrom(Tail(s), sep, <<>>)
    ELSE SplitFrom(Tail(s), sep, Append(cur, Head(s)))

\* str::split(char): every separator ends a part; at least one part results
Split(s, sep) == SplitFrom(s, sep, <<>>)

---------------------------------------------------------------------------
(* Value extractors *)

PortNone == [tag |-> "None"]
Network(n, proto) == [tag |-> "Network", port_number |-> n, protocol |-> proto]
Volume(ms) == [tag |-> "Volume", mounts |-> ms]

ProtocolDefaultUdp == "Udp"

\* Protocol::default()
ProtocolDefault == "Tcp"

ParseErr == [ok |-> FALSE, val |-> 0]

RECURSIVE ParseDigitsWrapping(_, _)
ParseDigitsWrapping(s, acc) ==
    IF s = <<>> THEN [ok |-> TRUE, val |-> acc]
    ELSE IF Head(s) \notin DigitSet THEN ParseErr
    ELSE ParseDigitsWrapping(Tail(s), (acc * 10 + DigitValue(Head(s))) % (U16Max + 1))

RECURSIVE ParseDigits(_, _)
\* The digit loop of u16::from_str: a non-digit is an error, and so is a
\* value that no longer fits in 16 bits (checked_mul / checked_add).
ParseDigits(s, acc) ==
    IF s = <<>> THEN [ok |-> TRUE, val |-> acc]
    ELSE IF Head(s) \notin DigitSet THEN ParseErr
    ELSE LET next == acc * 10 + DigitValue(Head(s))
         IN  IF next > U16Max THEN ParseErr ELSE ParseDigits(Tail(s), next)

\* str::parse::<u16>: empty text and a lone sign are errors, a leading '+'
\* is skipped, '-' is not a digit of an unsigned type.
ParseU16(s) ==
    IF s = <<>> THEN ParseErr
    ELSE IF Len(s) = 1 /\ Head(s) \in {"+", "-"} THEN ParseErr
    ELSE IF Head(s) = "+" THEN ParseDigits(Tail(s), 0)
    ELSE ParseDigits(s, 0)

\* Result::unwrap_or
UnwrapOr(r, d) == IF r.ok THEN r.val ELSE d

parse_exposed_port_CaseSensitive(in) ==
    LET parts == Split(in, "/")
        port == UnwrapOr(ParseU16(Trim(parts[1])), 0)
        protocol ==
            IF Len(parts) >= 2 /\ parts[2] = <<"t", "c", "p">> THEN "Tcp"
            ELSE IF Len(parts) >= 2 /\ parts[2] = <<"u", "d", "p">> THEN "Udp"
            ELSE ProtocolDefault
    IN  IF port = 0 THEN PortNone ELSE Network(port, protocol)

\* parse_exposed_port: the text is split on every '/', parts[0] is trimmed
\* and parsed as u16 (0 on failure), parts[1], when there is one, is
\* lower-cased and compared with "tcp" and "udp"; port 0 is Port::None.
parse_exposed_port(in) ==
    LET parts == Split(in, "/")
        port == UnwrapOr(ParseU16(Trim(parts[1])), 0)
        protocol ==
            IF Len(parts) >= 2 /\ ToLowercase(parts[2]) = <<"t", "c", "p">> THEN "Tcp"
            ELSE IF Len(parts) >= 2 /\ ToLowercase(parts[2]) = <<"u", "d", "p">> THEN "Udp"
            ELSE ProtocolDefault
    IN  IF port = 0 THEN PortNone ELSE Network(port, protocol)

---------------------------------------------------------------------------
(* JSON decoding of a list of strings: serde_json::from_str::<Vec<String>> *)

\* The white space JSON allows between tokens
JsonWhiteSpace == {" ", "\t"}

\* The characters that may not stand unescaped inside a JSON string
JsonControl == {"\t"}

\* The escapes after a backslash (of those the model's texts use), with the
\* character each stands for
JsonEscapes == {"\"", "\\", "/", "t"}
JsonUnescape(c) == IF c = "t" THEN "\t" ELSE c

JsonOk(v) == [ok |-> TRUE, val |-> v]
\* A failed decoding; val is what had been decoded when it failed
JsonErr(v) == [ok |-> FALSE, val |-> v]

RECURSIVE SkipJsonWs(_, _)
\* Deserializer::parse_whitespace: the position of the next token
SkipJsonWs(s, i) ==
    IF i <= Len(s) /\ s[i] \in JsonWhiteSpace THEN SkipJsonWs(s, i + 1) ELSE i

RECURSIVE JsonParseStr(_, _, _)
\* The string after an opening quote at i - 1: it ends at an unescaped quote
JsonParseStr(s, i, cur) ==
    IF i > Len(s) THEN [ok |-> FALSE, val |-> cur, next |-> i]
    ELSE IF s[i] = "\"" THEN [ok |-> TRUE, val |-> cur, next |-> i + 1]
    ELSE IF s[i] = "\\" THEN
        IF i + 1 <= Len(s) /\ s[i + 1] \in JsonEscapes
        THEN JsonParseStr(s, i + 2, Append(cur, JsonUnescape(s[i + 1])))
        ELSE [ok |-> FALSE, val |-> cur, next |-> i]
    ELSE IF s[i] \in JsonControl THEN [ok |-> FALSE, val |-> cur, next |-> i]
    ELSE JsonParseStr(s, i + 1, Append(cur, s[i]))

\* Deserializer::end after the closing bracket: only white space may follow
JsonEnd(s, i, acc) ==
    IF SkipJsonWs(s, i) > Len(s) THEN JsonOk(acc) ELSE JsonErr(acc)

RECURSIVE JsonNextElement(_, _, _, _)
\* SeqAccess::next_element for Vec<String>: ']' ends the list, a ',' is
\* needed between elements and may not be followed by ']', and an element
\* must be a string.
JsonNextElement(s, i, first, acc) ==
    LET j == SkipJsonWs(s, i)
        k == IF j <= Len(s) /\ s[j] = "," /\ ~first THEN SkipJsonWs(s, j + 1) ELSE j
    IN  IF j > Len(s) THEN JsonErr(acc)
        ELSE IF s[j] = "]" THEN JsonEnd(s, j + 1, acc)
        ELSE IF ~first /\ s[j] # "," THEN JsonErr(acc)
        ELSE IF k > Len(s) \/ s[k] = "]" THEN JsonErr(acc)
        ELSE IF s[k] # "\"" THEN JsonErr(acc)
        ELSE LET r == JsonParseStr(s, k + 1, <<>>)
             IN  IF r.ok
                 THEN JsonNextElement(s, r.next, FALSE, Append(acc, r.val))
                 ELSE JsonErr(acc)

\* serde_json::from_str::<Vec<String>>
JsonFromStr(s) ==
    LET i == SkipJsonWs(s, 1)
    IN  IF i > Len(s) \/ s[i] # "[" THEN JsonErr(<<>>)
        ELSE JsonNextElement(s, i + 1, TRUE, <<>>)

VolumeMount(p) == [mount_point |-> p]

Mounts(paths) == [i \in 1..Len(paths) |-> VolumeMount(paths[i])]

parse_json_volume_Partial(json_str) ==
    Volume(Mounts(JsonFromStr(json_str).val))

\* parse_json_volume: every decoded string becomes a VolumeMount, a decoding
\* error gives Port::None
parse_json_volume(json_str) ==
    LET unix_paths == JsonFromStr(json_str)
    IN  IF unix_paths.ok THEN Volume(Mounts(unix_paths.val)) ELSE PortNone

---------------------------------------------------------------------------
(* Word splitting: escape_string::split, an external crate, as              *)
(* parse_string_volume uses it: fields are separated by a space, a field   *)
(* may be double-quoted, a backslash escapes the next character, and an    *)
(* unfinished quote or escape makes the whole split fail.                  *)

SplitEscapes == {" ", "\\", "\"", "t"}
SplitUnescape(c) == IF c = "t" THEN "\t" ELSE c

SplitFail == [ok |-> FALSE, field |-> <<>>, rest |-> <<>>]

RECURSIVE SplitQuoted(_, _, _)
\* The field after an opening quote: it ends at the closing quote, which
\* the end of the text or a space must follow
SplitQuoted(s, i, cur) ==
    IF i > Len(s) THEN SplitFail
    ELSE IF s[i] = "\\" THEN
        IF i + 1 <= Len(s) /\ s[i + 1] \in SplitEscapes
        THEN SplitQuoted(s, i + 2, Append(cur, SplitUnescape(s[i + 1])))
        ELSE SplitFail
    ELSE IF s[i] = "\"" THEN
        IF i = Len(s) THEN [ok |-> TRUE, field |-> cur, rest |-> <<>>]
        ELSE IF s[i + 1] = " "
        THEN [ok |-> TRUE, field |-> cur, rest |-> SubSeq(s, i + 2, Len(s))]
        ELSE SplitFail
    ELSE SplitQuoted(s, i + 1, Append(cur, s[i]))

RECURSIVE SplitBare(_, _, _)
\* An unquoted field: it ends at the first unescaped space
SplitBare(s, i, cur) ==
    IF i > Len(s) THEN [ok |-> TRUE, field |-> cur, rest |-> <<>>]
    ELSE IF s[i] = " "
    THEN [ok |-> TRUE, field |-> cur, rest |-> SubSeq(s, i + 1, Len(s))]
    ELSE IF s[i] = "\\" THEN
        IF i + 1 <= Len(s) /\ s[i + 1] \in SplitEscapes
        THEN SplitBare(s, i + 2, Append(cur, SplitUnescape(s[i + 1])))
        ELSE SplitFail
    ELSE SplitBare(s, i + 1, Append(cur, s[i]))

\* escape_string::split_one
SplitOne(s) ==
    IF s # <<>> /\ Head(s) = "\"" THEN SplitQuoted(s, 2, <<>>) ELSE SplitBare(s, 1, <<>>)

RECURSIVE EscapeSplitFrom(_, _)
EscapeSplitFrom(s, acc) ==
    IF s = <<>> THEN [ok |-> TRUE, val |-> acc]
    ELSE LET r == SplitOne(s)
         IN  IF r.ok THEN EscapeSplitFrom(r.rest, Append(acc, r.field))
             ELSE [ok |-> FALSE, val |-> acc]

\* escape_string::split: Some(fields) or None
EscapeSplit(s) == EscapeSplitFrom(s, <<>>)

\* parse_string_volume: one VolumeMount per field, Port::None when the
\* split fails
parse_string_volume(input_str) ==
    LET unix_paths == EscapeSplit(input_str)
    IN  IF unix_paths.ok THEN Volume(Mounts(unix_paths.val)) ELSE PortNone

\* input.trim().chars().next()
FirstChar(s) == LET t == Trim(s) IN IF t = <<>> THEN "" ELSE Head(t)

parse_volume_SingleMount(in) ==
    LET c == FirstChar(in)
    IN  IF c = "[" THEN parse_json_volume(in)
        ELSE IF c = "/" THEN Volume(<<VolumeMount(in)>>)
        ELSE PortNone

\* parse_volume: the first character of the trimmed text chooses the
\* decoder, which is given the text as it came
parse_volume(in) ==
    LET c == FirstChar(in)
    IN  IF c = "[" THEN parse_json_volume(in)
        ELSE IF c = "/" THEN parse_string_volume(in)
        ELSE PortNone

---------------------------------------------------------------------------
(* The ParsedContainer under construction *)

ParsedContainer(n, b, l, e, v, c) ==
    [name |-> n, base_image |-> b, labels |-> l, exposed_ports |-> e,
     volumes |-> v, containerfile |-> c]

\* String::new(), HashMap::new(), Vec::new()
EmptyContainer == ParsedContainer(<<>>, "", <<>>, <<>>, <<>>, <<>>)

NoManifest == [ok |-> FALSE, instructions |-> <<>>]

\* The locals of extract_dockerblock as it starts
WalkStart ==
    /\ stages = <<>>
    /\ stageIdx = 0
    /\ insIdx = 0
    /\ name = <<>>
    /\ base_image = ""
    /\ labels = <<>>
    /\ exposed_ports = <<>>
    /\ volumes = <<>>
    /\ containerfile = <<>>
    /\ block = EmptyContainer

\* No manifest is being read
NoDockerfile ==
    /\ path = <<>>
    /\ fileKind = "missing"
    /\ manifest = NoManifest
    /\ WalkStart

\* No value extractor is being run on its own
NoExtractor ==
    /\ input = <<>>
    /\ result = PortNone

---------------------------------------------------------------------------
(* The topology model of parse_compose.rs *)

\* Option<T>: no value, or one
Some(v) == <<v>>
None == <<>>
IsSome(o) == o # None
Unwrap(o) == o[1]

\* A HashMap: its entries, and the order in which iterating it visits its
\* keys, which the hasher decides and the program does not
HashMap(entries, iter) == [entries |-> entries, iter |-> iter]
Keys(m) == DOMAIN m.entries
NoEntries == [k \in {} |-> <<>>]
EmptyMap == HashMap(NoEntries, <<>>)

\* enum DependsOn: a record whose one field is the variant
List(l) == [List |-> l]
Map(k) == [Map |-> k]
IsList(d) == DOMAIN d = {"List"}

\* struct Service: the fields validate reads
Service(restart, networks, depends_on) ==
    [restart |-> restart, networks |-> networks, depends_on |-> depends_on]

\* struct Compose
Compose(services, networks) == [services |-> services, networks |-> networks]

\* Result<(), String>; a message is kept as the pieces format! joins
Ok == [ok |-> TRUE, message |-> <<>>]
Err(message) == [ok |-> FALSE, message |-> message]
\* validate has not returned
NoVerdict == [ok |-> FALSE, message |-> <<>>]

\* No topology model is being validated
\* serde_yaml::from_reader: the Compose it deserializes, or an error
Deserialized(c) == [ok |-> TRUE, model |-> c]
NotDeserialized == [ok |-> FALSE, model |-> Compose(EmptyMap, None)]

\* Result<Compose>, and parse_composefile not having returned
NoOutcome == [tag |-> "None"]
OutcomeOk(c) == [tag |-> "Ok", value |-> c]
OutcomeErr == [tag |-> "Err"]

\* Nothing is being rendered
NoRender ==
    /\ container = EmptyContainer
    /\ labelIter = <<>>
    /\ twinIter = <<>>
    /\ package = <<>>
    /\ twinPackage = <<>>
    /\ activity = <<>>

\* No topology document is being read
NoCompose ==
    /\ document = NotDeserialized
    /\ compose = Compose(EmptyMap, None)
    /\ verdict = NoVerdict
    /\ outcome = NoOutcome

---------------------------------------------------------------------------
(* Inputs of parse_exposed_port *)

TcpWord == <<"t", "c", "p">>
UdpWord == <<"u", "d", "p">>

\* Every spelling of a word in upper and lower case letters
CaseVariants(w) ==
    {s \in [1..Len(w) -> {w[i] : i \in 1..Len(w)} \cup {UpperChar(w[i]) : i \in 1..Len(w)}] :
        \A i \in 1..Len(w) : s[i] \in {w[i], UpperChar(w[i])}}

TcpSpellings == CaseVariants(TcpWord)
UdpSpellings == CaseVariants(UdpWord)

PortValues ==
    (0..MaxSmallPort) \cup {80, 8080}
    \cup ((U16Max - PortWindow)..(U16Max + 1 + PortWindow))
    \cup ((2 * (U16Max + 1) - PortWindow)..(2 * (U16Max + 1) + PortWindow))
    \cup ((10 * U16Max - PortWindow)..(10 * U16Max + PortWindow))
    \cup {U16Max + 1 + 8080}

ValidPorts == {n \in PortValues : 1 <= n /\ n <= U16Max}

NumberTexts == {Zeros(z) \o ToDecimal(n) : z \in 0..MaxLeadingZeros, n \in PortValues}

NonNumericTexts ==
    { <<>>, <<" ">>, <<"x">>, <<"i", "n", "v", "a", "l", "i", "d">>,
      <<"8", "x">>, <<"x", "8">>, <<"+">>, <<"-">>, <<"t", "c", "p">> }

PortTexts ==
    {pre \o t \o post :
        pre \in {<<>>, <<" ">>, <<"+">>, <<"-">>},
        t \in NumberTexts,
        post \in {<<>>, <<" ">>, <<"\t">>}}
    \cup NonNumericTexts

\* Protocol segments that are no spelling of tcp or udp and hold no '/'
OtherTokens ==
    { <<>>, <<"b", "o", "g", "u", "s">>, <<"t", "c", "p", "x">>, <<"u", "d">>,
      <<"u", "d", "p", " ">>, <<" ", "t", "c", "p">>, <<"s", "c", "t", "p">> }

ProtocolTails ==
    {<<>>}
    \cup {<<"/">> \o t : t \in TcpSpellings \cup UdpSpellings \cup OtherTokens}
    \cup { <<"/", "u", "d", "p", "/", "x">>, <<"/", "t", "c", "p", "/", "u", "d", "p">>,
           <<"/", "/", "u", "d", "p">> }

PortInputs == {p \o t : p \in PortTexts, t \in ProtocolTails}

---------------------------------------------------------------------------
(* parse_exposed_port applied to one argument text *)

InitPort ==
    /\ pc = "start"
    /\ input \in PortInputs
    /\ result = PortNone
    /\ NoDockerfile
    /\ NoCompose
    /\ NoRender

CallParseExposedPort ==
    /\ pc = "start"
    /\ result' = parse_exposed_port(input)
    /\ pc' = "done"
    /\ UNCHANGED <<input, dfVars, cmpVars, rndVars>>

NextPort == CallParseExposedPort

SpecPort == InitPort /\ [][NextPort]_vars

\* The text in front of the first '/'
RECURSIVE BeforeSlash(_)
BeforeSlash(s) ==
    IF s = <<>> \/ Head(s) = "/" THEN <<>> ELSE <<Head(s)>> \o BeforeSlash(Tail(s))

\* The inputs "<n>/<p>" of C1 with the endpoint each is to give
C1_Cases ==
    {[text |-> ToDecimal(n) \o <<"/">> \o p, want |-> Network(n, "Tcp")] :
        n \in ValidPorts, p \in TcpSpellings}
    \cup
    {[text |-> ToDecimal(n) \o <<"/">> \o p, want |-> Network(n, "Udp")] :
        n \in ValidPorts, p \in UdpSpellings}

\* C1: an input "<n>/<p>" with 1 <= n <= 65535 and <p> a spelling of tcp or
\* udp in any letter case gives an endpoint with port_number n and the
\* protocol Tcp for tcp, Udp for udp.
C1_ExactPortMatchingProtocol ==
    pc = "done" => \A c \in C1_Cases : input = c.text => result = c.want

C1_Witness ==
    /\ pc = "done"
    /\ input = ToDecimal(U16Max) \o <<"/", "u", "D", "p">>
    /\ result = Network(U16Max, "Udp")

\* A text that is clearly no number: it holds no digit, or a character that
\* is neither a digit, a sign nor white space.
NonNumeric(t) ==
    \/ \A i \in 1..Len(t) : t[i] \notin DigitSet
    \/ \E i \in 1..Len(t) : t[i] \notin DigitSet \cup {"+", "-"} \cup WhiteSpace

\* The texts of the numbers 0 and above 65535, with leading zeros
C2_BadNumbers ==
    {Zeros(z) \o ToDecimal(n) :
        z \in 0..MaxLeadingZeros, n \in {m \in PortValues : m = 0 \/ m > U16Max}}

\* C2: parse_exposed_port returns Port::None when the text before the '/' is
\* non-numeric, is the number 0 or is a number above 65535, and it never
\* returns an endpoint whose port_number is 0.
C2_AbsentOnBadPort ==
    pc = "done" =>
        /\ (result.tag = "Network" => result.port_number # 0)
        /\ (NonNumeric(BeforeSlash(input)) => result = PortNone)
        /\ (BeforeSlash(input) \in C2_BadNumbers => result = PortNone)

C2_Witness ==
    /\ pc = "done"
    /\ BeforeSlash(input) = ToDecimal(U16Max + 1 + 8080)
    /\ result = PortNone

\* The inputs of C3 with the endpoint each is to give
C3_Cases ==
    {[text |-> ToDecimal(n), want |-> Network(n, "Tcp")] : n \in ValidPorts}
    \cup
    {[text |-> ToDecimal(n) \o <<"/">> \o t, want |-> Network(n, "Tcp")] :
        n \in ValidPorts, t \in OtherTokens}

\* C3: with a port segment that is a valid port 1..65535, a missing protocol
\* segment and any protocol token other than tcp/udp give protocol Tcp.
C3_DefaultsToTcp ==
    pc = "done" => \A c \in C3_Cases : input = c.text => result = c.want

C3_Witness ==
    /\ pc = "done"
    /\ input = <<"8", "0", "8", "0", "/", "b", "o", "g", "u", "s">>
    /\ result = Network(8080, "Tcp")

---------------------------------------------------------------------------
(* Inputs of parse_volume *)

\* A list text holds up to MaxJsonElems strings.
MaxJsonElems == 2
\* A path-list text holds up to MaxShellPaths paths.
MaxShellPaths == 2

DataPath == <<"/", "d", "a", "t", "a">>
AppPath == <<"/", "a", "p", "p">>

\* The strings put in a list: two paths, one with a space, and one with a
\* quote, a backslash and a tab, which JSON must escape
JsonElems == {DataPath, AppPath, <<"/", "a", " ", "b">>, <<"/", "\"", "\\", "\t">>}

SeqsUpTo(S, n) == UNION {[1..k -> S] : k \in 0..n}

\* The JSON text of one character of a string; '/' may be written escaped
JsonEscapeChar(c, escSlash) ==
    CASE c = "\"" -> <<"\\", "\"">>
      [] c = "\\" -> <<"\\", "\\">>
      [] c = "\t" -> <<"\\", "t">>
      [] c = "/" /\ escSlash -> <<"\\", "/">>
      [] OTHER -> <<c>>

RECURSIVE JsonEscape(_, _)
JsonEscape(str, escSlash) ==
    IF str = <<>> THEN <<>>
    ELSE JsonEscapeChar(Head(str), escSlash) \o JsonEscape(Tail(str), escSlash)

JsonString(str, escSlash) == <<"\"">> \o JsonEscape(str, escSlash) \o <<"\"">>

RECURSIVE JsonItems(_, _, _)
JsonItems(arr, lay, escSlash) ==
    IF Len(arr) = 1 THEN JsonString(arr[1], escSlash)
    ELSE JsonString(arr[1], escSlash) \o lay.in \o <<",">> \o lay.in
         \o JsonItems(Tail(arr), lay, escSlash)

\* The JSON text of a list of strings, with white space lay.out around it
\* and lay.in around its brackets and commas
JsonArrayText(arr, lay, escSlash) ==
    lay.out \o <<"[">> \o lay.in
    \o (IF arr = <<>> THEN <<>> ELSE JsonItems(arr, lay, escSlash) \o lay.in)
    \o <<"]">> \o lay.out

JsonLayouts ==
    { [out |-> <<>>, in |-> <<>>], [out |-> <<>>, in |-> <<" ">>],
      [out |-> <<" ">>, in |-> <<"\t">>] }

\* The well-formed list texts with the mounts each is to give
C4_Cases ==
    {[text |-> JsonArrayText(arr, lay, e), want |-> Volume(Mounts(arr))] :
        arr \in SeqsUpTo(JsonElems, MaxJsonElems), lay \in JsonLayouts, e \in BOOLEAN}

JsonTexts == {c.text : c \in C4_Cases}

DeleteAt(s, i) == SubSeq(s, 1, i - 1) \o SubSeq(s, i + 1, Len(s))
ReplaceAt(s, i, c) == [s EXCEPT ![i] = c]

\* A well-formed text with one character dropped or overwritten
Damaged(t) ==
    {DeleteAt(t, i) : i \in 1..Len(t)}
    \cup {ReplaceAt(t, i, c) : i \in 1..Len(t), c \in {"1", ",", "]", "\""}}

JsonExtraTexts ==
    { <<"[">>, <<"[", "1", "]">>, <<"[", "[", "]", "]">>, <<"{", "}">>,
      <<"[", "]", " ", "x">>, <<"[", "]", "[", "]">>,
      <<"[", "\"", "/", "d", "\"", ",", "1", "]">>,
      <<"[", "1", ",", "\"", "/", "d", "\"", "]">>,
      <<"[", "\"", "/", "d", "\"", ",", "]">>,
      <<"[", ",", "\"", "/", "d", "\"", "]">>,
      <<"[", "\"", "/", "d", "\"", ",", "[", "\"", "/", "a", "\"", "]", "]">>,
      <<"[", "\"", "/", "d", "\"", ",", "n", "u", "l", "l", "]">>,
      <<"[", "\"", "/", "\\", "x", "\"", "]">>,
      <<"[", "/", "d", "a", "t", "a", "]">> }

ShellPaths == {DataPath, AppPath, <<"/", "v", "a", "r", "/", "l", "i", "b">>}

RECURSIVE JoinSpace(_)
JoinSpace(paths) ==
    IF Len(paths) = 1 THEN paths[1]
    ELSE paths[1] \o <<" ">> \o JoinSpace(Tail(paths))

\* The path lists, one space between paths, with the mounts each is to give
C5_Cases ==
    {[text |-> JoinSpace(ps), want |-> Volume(Mounts(ps))] :
        ps \in SeqsUpTo(ShellPaths, MaxShellPaths) \ {<<>>}}

OtherVolumeTexts ==
    { <<>>, <<" ">>, <<"i", "n", "v", "a", "l", "i", "d">>,
      <<"d", "a", "t", "a", " ", "/", "a", "p", "p">>,
      <<".", "/", "d", "a", "t", "a">>,
      <<"\"", "/", "d", "a", "t", "a", "\"">>,
      <<" ", "/", "d", "a", "t", "a">>,
      <<"/", "d", "a", "t", "a", " ">>,
      <<"/", "d", "a", "t", "a", " ", " ", "/", "a", "p", "p">>,
      <<"/", "m", "y", "\\", " ", "a", "p", "p">>,
      <<"/", "d", "a", "t", "a", " ", "\"", "/", "m", "y", " ", "a", "p", "p", "\"">>,
      <<"/", "d", "a", "t", "a", " ", "\"", "/", "a", "p", "p">>,
      <<"/", "d", "a", "t", "a", "\\">>,
      <<"$", "V", "O", "L">>, <<"\t", "x">> }

\* The texts tried as they stand; the list texts are tried damaged as well
VolumeInputs ==
    JsonTexts \cup JsonExtraTexts
    \cup {c.text : c \in C5_Cases} \cup OtherVolumeTexts

---------------------------------------------------------------------------
(* parse_volume applied to one argument text *)

InitVolume ==
    /\ pc = "start"
    /\ \/ input \in VolumeInputs
       \/ \E arr \in SeqsUpTo(JsonElems, MaxJsonElems), lay \in JsonLayouts,
             e \in BOOLEAN :
              input \in Damaged(JsonArrayText(arr, lay, e))
    /\ result = PortNone
    /\ NoDockerfile
    /\ NoCompose
    /\ NoRender

CallParseVolume ==
    /\ pc = "start"
    /\ result' = parse_volume(input)
    /\ pc' = "done"
    /\ UNCHANGED <<input, dfVars, cmpVars, rndVars>>

NextVolume == CallParseVolume

SpecVolume == InitVolume /\ [][NextVolume]_vars

\* The grammar of a JSON list of strings as an automaton over characters:
\* the state after reading one more character
JsonStep(st, c) ==
    CASE st = "start" -> IF c \in JsonWhiteSpace THEN "start"
                         ELSE IF c = "[" THEN "open" ELSE "bad"
      [] st = "open"  -> IF c \in JsonWhiteSpace THEN "open"
                         ELSE IF c = "]" THEN "end"
                         ELSE IF c = "\"" THEN "string" ELSE "bad"
      [] st = "string" -> IF c = "\"" THEN "item"
                          ELSE IF c = "\\" THEN "escape"
                          ELSE IF c \in JsonControl THEN "bad" ELSE "string"
      [] st = "escape" -> IF c \in JsonEscapes THEN "string" ELSE "bad"
      [] st = "item"  -> IF c \in JsonWhiteSpace THEN "item"
                         ELSE IF c = "," THEN "comma"
                         ELSE IF c = "]" THEN "end" ELSE "bad"
      [] st = "comma" -> IF c \in JsonWhiteSpace THEN "comma"
                         ELSE IF c = "\"" THEN "string" ELSE "bad"
      [] st = "end"   -> IF c \in JsonWhiteSpace THEN "end" ELSE "bad"
      [] OTHER -> "bad"

RECURSIVE JsonRun(_, _)
JsonRun(s, st) == IF s = <<>> THEN st ELSE JsonRun(Tail(s), JsonStep(st, Head(s)))

\* The text is a well-formed JSON list of strings
WellFormedJsonList(s) == JsonRun(s, "start") = "end"

\* The first character of the text that is no white space ("" if none)
RECURSIVE FirstNonWhite(_)
FirstNonWhite(s) ==
    IF s = <<>> THEN ""
    ELSE IF Head(s) \in WhiteSpace THEN FirstNonWhite(Tail(s)) ELSE Head(s)

\* C4: the JSON text of a list of strings gives one VolumeMount per element,
\* in order, with the element as mount_point; a text that starts with '['
\* and is no well-formed JSON list of strings gives no mounts at all.
C4_JsonListOrNothing ==
    pc = "done" =>
        /\ \A c \in C4_Cases : input = c.text => result = c.want
        /\ (FirstNonWhite(input) = "[" /\ ~WellFormedJsonList(input) => result = PortNone)

C4_Witness ==
    /\ pc = "done"
    /\ input = <<"[", " ", "\"", "/", "d", "a", "t", "a", "\"", " ", ",", " ",
                 "\"", "/", "a", "p", "p", "\"", " ", "]">>
    /\ result = Volume(<<VolumeMount(DataPath), VolumeMount(AppPath)>>)

\* C5: a text that starts with '/' gives one VolumeMount per space-separated
\* path, in order; a text whose first non-white character is neither '['
\* nor '/', and an empty text, give no mounts.
C5_DispatchOnFirstChar ==
    pc = "done" =>
        /\ \A c \in C5_Cases : input = c.text => result = c.want
        /\ (FirstNonWhite(input) \notin {"[", "/"} => result = PortNone)

C5_Witness ==
    /\ pc = "done"
    /\ input = DataPath \o <<" ">> \o AppPath
    /\ result = Volume(<<VolumeMount(DataPath), VolumeMount(AppPath)>>)

---------------------------------------------------------------------------
(* Manifests: the instructions dockerfile_parser hands over *)

\* Manifests of up to MaxInstr instructions of the catalogue are all tried.
MaxInstr == 3
\* After a FROM, up to MaxExtra instructions of the wider catalogue are tried.
MaxExtra == 1
\* Names in one depends_on
MaxDeps == 2
\* Names in one service's networks, and keys of the model's networks
MaxNets == 2
\* Labels, exposed ports and mounts of a model that is rendered
MaxLabels == 2
MaxPorts == 2
MaxMounts == 2
\* Entries of the instruction trace of a model whose activity is drawn
MaxTrace == 3

\* Instruction::From
InsFrom(text, image, alias) ==
    [kind |-> "From", text |-> text, image |-> image, alias |-> alias,
     labels |-> <<>>, instruction |-> "FROM", arguments |-> <<>>]

\* Instruction::Label
InsLabel(text, pairs) ==
    [kind |-> "Label", text |-> text, image |-> "", alias |-> None,
     labels |-> pairs, instruction |-> "LABEL", arguments |-> <<>>]

\* Instruction::Misc
InsMisc(text, instruction, arguments) ==
    [kind |-> "Misc", text |-> text, image |-> "", alias |-> None,
     labels |-> <<>>, instruction |-> instruction, arguments |-> arguments]

\* Any other Instruction (Arg, Run, Entrypoint, Cmd, Copy, Env)
InsOther(text, instruction) ==
    [kind |-> "Other", text |-> text, image |-> "", alias |-> None,
     labels |-> <<>>, instruction |-> instruction, arguments |-> <<>>]

Pair(n, v) == [name |-> n, value |-> v]

FromRust == InsFrom("FROM rust:latest", "rust:latest", None)
FromBuild == InsFrom("FROM alpine AS Build", "alpine", Some(<<"B", "u", "i", "l", "d">>))
FromRun == InsFrom("FROM debian AS run", "debian", Some(<<"r", "u", "n">>))
LabelTwice ==
    InsLabel("LABEL team=\"dev\" team=\"ops\"", <<Pair("team", "dev"), Pair("team", "ops")>>)
LabelV1 == InsLabel("LABEL version=\"1.0\"", <<Pair("version", "1.0")>>)
LabelV2 ==
    InsLabel("LABEL version=\"2.0\" team=\"ops\"",
             <<Pair("version", "2.0"), Pair("team", "ops")>>)
ExposeTcp == InsMisc("EXPOSE 8080/tcp", "EXPOSE", <<"8", "0", "8", "0", "/", "t", "c", "p">>)
ExposeBad == InsMisc("EXPOSE invalid/tcp", "EXPOSE", <<"i", "n", "v", "a", "l", "i", "d", "/", "t", "c", "p">>)
VolumeData == InsMisc("VOLUME /data", "VOLUME", DataPath)
VolumeBad == InsMisc("VOLUME invalid", "VOLUME", <<"i", "n", "v", "a", "l", "i", "d">>)
RunMake == InsOther("RUN make", "RUN")
Maintainer == InsMisc("MAINTAINER x", "MAINTAINER", <<"x">>)

Catalogue ==
    { FromRust, FromBuild, LabelV1, LabelV2, ExposeTcp, ExposeBad, VolumeData,
      VolumeBad, RunMake, Maintainer }

ExposeUdp == InsMisc("EXPOSE 53/udp", "EXPOSE", <<"5", "3", "/", "u", "d", "p">>)
ExposePlain == InsMisc("EXPOSE 8080", "EXPOSE", <<"8", "0", "8", "0">>)
ExposeZero == InsMisc("EXPOSE 0/tcp", "EXPOSE", <<"0", "/", "t", "c", "p">>)
ExposeBig == InsMisc("EXPOSE 65536", "EXPOSE", <<"6", "5", "5", "3", "6">>)
ExposeEmpty == InsMisc("EXPOSE /udp", "EXPOSE", <<"/", "u", "d", "p">>)
VolumeJson ==
    InsMisc("VOLUME [\"/data\",\"/app\"]", "VOLUME",
            JsonArrayText(<<DataPath, AppPath>>, [out |-> <<>>, in |-> <<>>], FALSE))
VolumeTwo == InsMisc("VOLUME /data /app", "VOLUME", DataPath \o <<" ">> \o AppPath)
VolumeJsonCut == InsMisc("VOLUME [\"/data\",", "VOLUME", <<"[", "\"", "/", "d", "a", "t", "a", "\"", ",">>)
VolumeJsonNumber == InsMisc("VOLUME [\"/data\",1]", "VOLUME", <<"[", "\"", "/", "d", "a", "t", "a", "\"", ",", "1", "]">>)
VolumeQuoteOpen == InsMisc("VOLUME /data \"/app", "VOLUME", <<"/", "d", "a", "t", "a", " ", "\"", "/", "a", "p", "p">>)
VolumeVariable == InsMisc("VOLUME $VOL", "VOLUME", <<"$", "V", "O", "L">>)

WideCatalogue ==
    Catalogue \cup
    { ExposeUdp, ExposePlain, ExposeZero, ExposeBig, ExposeEmpty, VolumeJson,
      VolumeTwo, VolumeJsonCut, VolumeJsonNumber, VolumeQuoteOpen, VolumeVariable }

Parsed(instrs) == [ok |-> TRUE, instructions |-> instrs]

\* The manifest of the spec's example and of the repository's tests
SampleManifest == <<FromRust, LabelV1, ExposeTcp, VolumeData>>

LongManifests ==
    { SampleManifest,
      <<FromBuild, LabelV1, ExposeTcp, FromRust, LabelV2, VolumeData>>,
      <<RunMake, FromRust, ExposeBad, VolumeBad, ExposeTcp, VolumeData>>,
      <<FromRust, FromBuild, LabelV2, LabelV1, VolumeData, ExposeTcp>>,
      <<FromRust, ExposeBad, VolumeJsonCut>>,
      <<FromBuild, FromRun>>,
      <<FromRun, LabelV1, FromBuild, ExposeTcp>>,
      <<FromBuild, LabelTwice, FromRun, LabelV2, FromRust, RunMake>>,
      <<FromRun, LabelV2, LabelTwice, LabelV1>>,
      <<FromRust, ExposeZero, VolumeJsonNumber, ExposeUdp, VolumeJson, VolumeTwo>>,
      <<FromRust, VolumeQuoteOpen, ExposeBig, VolumeVariable, ExposePlain>> }

Manifests ==
    SeqsUpTo(Catalogue, MaxInstr)
    \cup {<<FromRust>> \o t : t \in SeqsUpTo(WideCatalogue, MaxExtra)}
    \cup LongManifests

---------------------------------------------------------------------------
(* Paths *)

SamplePath == <<"s", "a", "m", "p", "l", "e", ".", "d", "o", "c", "k", "e", "r", "f", "i", "l", "e">>

Paths ==
    { SamplePath, <<"d", "i", "r", "/", "s", "a", "m", "p", "l", "e", ".", "d", "o", "c", "k", "e", "r", "f", "i", "l", "e">>, <<"/", "a", "b", "s", "/", "D", "o", "c", "k", "e", "r", "f", "i", "l", "e">>, <<".", "/", "D", "o", "c", "k", "e", "r", "f", "i", "l", "e">>, <<"a", "/", ".", ".", "/", "b">>, <<"a", "/", "/", "b">>, <<"d", "i", "r", "/">>, <<"d", "i", "r", "/", ".">>, <<"d", "i", "r", "/", ".", ".">>,
      <<".", ".">>, <<".">>, <<"/">>, <<".", "h", "i", "d", "d", "e", "n">>, <<"a", ".", "t", "a", "r", ".", "g", "z">>, <<"/", "t", "m", "p", "/", ".", "t", "m", "p", "X", "y">>, <<>> }

NonEmptyParts(s) == SelectSeq(Split(s, "/"), LAMBDA part : part # <<>>)

\* Path::components, as far as file_name reads them: empty parts (repeated
\* and trailing separators) and "." parts are no components
Components(s) == SelectSeq(NonEmptyParts(s), LAMBDA part : part # <<".">>)

FileStem(p) ==
    LET c == Components(p)
        last == c[Len(c)]
        stem == Split(last, ".")[1]
    IN  IF c = <<>> \/ last = <<".", ".">> THEN None
        ELSE IF stem = <<>> THEN Some(last) ELSE Some(stem)

\* Path::file_name: the last component if it is a normal one; None for a
\* path that ends in "..", for the root and for the empty path
FileName(p) ==
    LET c == Components(p)
    IN  IF c = <<>> \/ c[Len(c)] = <<".", ".">> THEN None ELSE Some(c[Len(c)])

\* What a path can name in a file system: a path that is empty, or ends in
\* a separator, "." or "..", names no regular file
FileKinds(p) ==
    LET parts == Split(p, "/")
        last == parts[Len(parts)]
    IN  IF last \in {<<>>, <<".">>, <<".", ".">>}
        THEN {"missing", "unreadable", "directory"}
        ELSE {"missing", "unreadable", "directory", "file"}

SmallManifests ==
    { Parsed(<<>>), Parsed(<<FromRust>>), Parsed(<<FromBuild>>),
      Parsed(<<FromBuild, FromRust>>), Parsed(<<FromRust, FromBuild, LabelV1>>),
      Parsed(<<RunMake>>), NoManifest }

---------------------------------------------------------------------------
(* parse_dockerfile and extract_dockerblock *)

\* str::to_ascii_lowercase
ToAsciiLowercase(s) == ToLowercase(s)

RECURSIVE IterStages(_, _)
\* Dockerfile::iter_stages: every FROM opens a stage named by its alias,
\* every other instruction joins the stage open at that point, and an
\* instruction in front of the first FROM belongs to no stage
IterStages(instrs, acc) ==
    IF instrs = <<>> THEN acc
    ELSE LET ins == Head(instrs)
             n == Len(acc)
         IN  IF ins.kind = "From"
             THEN IterStages(Tail(instrs),
                      Append(acc, [name |-> IF IsSome(ins.alias)
                                            THEN Some(ToAsciiLowercase(Unwrap(ins.alias)))
                                            ELSE None,
                                   instructions |-> <<ins>>]))
             ELSE IF n > 0
             THEN IterStages(Tail(instrs),
                      [acc EXCEPT ![n].instructions = Append(@, ins)])
             ELSE IterStages(Tail(instrs), acc)

CurStage == stages[stageIdx]
\* The instruction the inner loop handles next
CurIns == CurStage.instructions[insIdx + 1]

\* parse_misc_instruction
parse_misc_instruction(inst) ==
    CASE inst.instruction = "EXPOSE" -> parse_exposed_port(inst.arguments)
      [] inst.instruction = "VOLUME" -> parse_volume(inst.arguments)
      [] OTHER -> PortNone

ExposedPort(r) == [port_number |-> r.port_number, protocol |-> r.protocol]

Insert_KeepsFirst(m, k, v) ==
    [x \in DOMAIN m \cup {k} |-> IF x \in DOMAIN m THEN m[x] ELSE v]

\* HashMap::insert
Insert(m, k, v) == [x \in DOMAIN m \cup {k} |-> IF x = k THEN v ELSE m[x]]

RECURSIVE InsertAll(_, _)
\* for item in &label.labels { labels.insert(name, value) }
InsertAll(m, pairs) ==
    IF pairs = <<>> THEN m
    ELSE InsertAll(Insert(m, Head(pairs).name, Head(pairs).value), Tail(pairs))

InitDockerfile ==
    /\ pc = "open"
    /\ \/ /\ path = SamplePath
          /\ fileKind = "file"
          /\ manifest \in {Parsed(m) : m \in Manifests}
       \/ /\ path \in Paths
          /\ fileKind \in FileKinds(path)
          /\ manifest \in SmallManifests
    /\ WalkStart
    /\ NoExtractor
    /\ NoCompose
    /\ NoRender

\* File::open(path).expect(..) on a path that cannot be opened
OpenPanics ==
    /\ pc = "open"
    /\ fileKind \in {"missing", "unreadable"}
    /\ pc' = "panic"
    /\ UNCHANGED <<cmpVars, rndVars, exVars, dfVars>>

OpenFile ==
    /\ pc = "open"
    /\ fileKind \notin {"missing", "unreadable"}
    /\ pc' = "read"
    /\ UNCHANGED <<cmpVars, rndVars, exVars, dfVars>>

\* Dockerfile::from_reader(f)? failing: the read fails (a directory) or the
\* text is no manifest
ReadFails ==
    /\ pc = "read"
    /\ (fileKind = "directory" \/ ~manifest.ok)
    /\ pc' = "error"
    /\ UNCHANGED <<cmpVars, rndVars, exVars, dfVars>>

ReadManifest ==
    /\ pc = "read"
    /\ fileKind = "file"
    /\ manifest.ok
    /\ stages' = IterStages(manifest.instructions, <<>>)
    /\ pc' = "stage"
    /\ UNCHANGED <<cmpVars, rndVars, exVars, envVars, stageIdx, insIdx, name, base_image, labels,
                   exposed_ports, volumes, containerfile, block>>

EnterStage_KeepsFirstName ==
    /\ pc = "stage"
    /\ stageIdx < Len(stages)
    /\ stageIdx' = stageIdx + 1
    /\ insIdx' = 0
    /\ name' = (IF name = <<>> /\ IsSome(stages[stageIdx + 1].name)
                THEN Unwrap(stages[stageIdx + 1].name) ELSE name)
    /\ pc' = "ins"
    /\ UNCHANGED <<cmpVars, rndVars, exVars, envVars, stages, base_image, labels,
                   exposed_ports, volumes, containerfile, block>>

\* for stage in dockerfile.iter_stages() { name = stage.name.unwrap_or("") ...
EnterStage ==
    /\ pc = "stage"
    /\ stageIdx < Len(stages)
    /\ stageIdx' = stageIdx + 1
    /\ insIdx' = 0
    /\ name' = (IF IsSome(stages[stageIdx + 1].name)
                THEN Unwrap(stages[stageIdx + 1].name) ELSE <<>>)
    /\ pc' = "ins"
    /\ UNCHANGED <<cmpVars, rndVars, exVars, envVars, stages, base_image, labels, exposed_ports,
                   volumes, containerfile, block>>

AtInstruction(kind) ==
    /\ pc = "ins"
    /\ insIdx < Len(CurStage.instructions)
    /\ CurIns.kind = kind

\* Instruction::From(from) => base_image = from.image
StepFrom ==
    /\ AtInstruction("From")
    /\ containerfile' = Append(containerfile, CurIns.text)
    /\ base_image' = CurIns.image
    /\ insIdx' = insIdx + 1
    /\ UNCHANGED <<pc, cmpVars, rndVars, exVars, envVars, stages, stageIdx, name, labels, exposed_ports,
                   volumes, block>>

\* Instruction::Label(label) => every pair is inserted
StepLabel ==
    /\ AtInstruction("Label")
    /\ containerfile' = Append(containerfile, CurIns.text)
    /\ labels' = InsertAll(labels, CurIns.labels)
    /\ insIdx' = insIdx + 1
    /\ UNCHANGED <<pc, cmpVars, rndVars, exVars, envVars, stages, stageIdx, name, base_image, exposed_ports,
                   volumes, block>>

StepMisc_AbortsOnNone ==
    /\ AtInstruction("Misc")
    /\ LET r == parse_misc_instruction(CurIns)
       IN  /\ exposed_ports' = (IF r.tag = "Network"
                                THEN Append(exposed_ports, ExposedPort(r))
                                ELSE exposed_ports)
           /\ volumes' = (IF r.tag = "Volume" THEN volumes \o r.mounts ELSE volumes)
           /\ pc' = (IF r.tag = "None" /\ CurIns.instruction \in {"EXPOSE", "VOLUME"}
                     THEN "error" ELSE pc)
    /\ containerfile' = Append(containerfile, CurIns.text)
    /\ insIdx' = insIdx + 1
    /\ UNCHANGED <<cmpVars, rndVars, exVars, envVars, stages, stageIdx, name, base_image, labels, block>>

StepMisc_VolumesReplaced ==
    /\ AtInstruction("Misc")
    /\ containerfile' = Append(containerfile, CurIns.text)
    /\ LET r == parse_misc_instruction(CurIns)
       IN  /\ exposed_ports' = (IF r.tag = "Network"
                                THEN Append(exposed_ports, ExposedPort(r))
                                ELSE exposed_ports)
           /\ volumes' = (IF r.tag = "Volume" THEN r.mounts ELSE volumes)
    /\ insIdx' = insIdx + 1
    /\ UNCHANGED <<pc, cmpVars, rndVars, exVars, envVars, stages, stageIdx, name, base_image, labels, block>>

\* Instruction::Misc(misc) => an endpoint is pushed, mounts are appended,
\* Port::None adds nothing
StepMisc ==
    /\ AtInstruction("Misc")
    /\ containerfile' = Append(containerfile, CurIns.text)
    /\ LET r == parse_misc_instruction(CurIns)
       IN  /\ exposed_ports' = (IF r.tag = "Network"
                                THEN Append(exposed_ports, ExposedPort(r))
                                ELSE exposed_ports)
           /\ volumes' = (IF r.tag = "Volume" THEN volumes \o r.mounts ELSE volumes)
    /\ insIdx' = insIdx + 1
    /\ UNCHANGED <<pc, cmpVars, rndVars, exVars, envVars, stages, stageIdx, name, base_image, labels, block>>

StepOther_NoTrace ==
    /\ AtInstruction("Other")
    /\ insIdx' = insIdx + 1
    /\ UNCHANGED <<pc, cmpVars, rndVars, exVars, envVars, stages, stageIdx, name, base_image, labels,
                   exposed_ports, volumes, containerfile, block>>

\* _ => {}: any other instruction is only traced
StepOther ==
    /\ AtInstruction("Other")
    /\ containerfile' = Append(containerfile, CurIns.text)
    /\ insIdx' = insIdx + 1
    /\ UNCHANGED <<pc, cmpVars, rndVars, exVars, envVars, stages, stageIdx, name, base_image, labels,
                   exposed_ports, volumes, block>>

\* The inner loop ends
LeaveStage ==
    /\ pc = "ins"
    /\ insIdx = Len(CurStage.instructions)
    /\ pc' = "stage"
    /\ UNCHANGED <<cmpVars, rndVars, exVars, dfVars>>

\* The outer loop ends: the block is built and returned
BuildBlock ==
    /\ pc = "stage"
    /\ stageIdx = Len(stages)
    /\ block' = ParsedContainer(name, base_image, labels, exposed_ports, volumes,
                                containerfile)
    /\ pc' = "extracted"
    /\ UNCHANGED <<cmpVars, rndVars, exVars, envVars, walkVars>>

\* if block.name == "" { block.name = Path::new(path).file_name().unwrap()... }
NameBlock ==
    /\ pc = "extracted"
    /\ IF block.name # <<>>
       THEN pc' = "done" /\ block' = block
       ELSE IF IsSome(FileName(path))
       THEN pc' = "done" /\ block' = [block EXCEPT !.name = Unwrap(FileName(path))]
       ELSE pc' = "panic" /\ block' = block
    /\ UNCHANGED <<cmpVars, rndVars, exVars, envVars, walkVars>>

Next ==
    \/ OpenPanics \/ OpenFile \/ ReadFails \/ ReadManifest
    \/ EnterStage \/ StepFrom \/ StepLabel \/ StepMisc \/ StepOther \/ LeaveStage
    \/ BuildBlock \/ NameBlock

Spec == InitDockerfile /\ [][Next]_vars

---------------------------------------------------------------------------
(* Properties of the walk *)

RECURSIVE FromFirstFrom(_)
\* The instructions of the manifest's stages in source order: all from the
\* first FROM on
FromFirstFrom(instrs) ==
    IF instrs = <<>> THEN <<>>
    ELSE IF Head(instrs).kind = "From" THEN instrs
    ELSE FromFirstFrom(Tail(instrs))

StageInstructions == FromFirstFrom(manifest.instructions)

SourceTexts == [i \in 1..Len(StageInstructions) |-> StageInstructions[i].text]

RECURSIVE LenSum(_, _)
LenSum(sts, k) ==
    IF k = 0 THEN 0 ELSE Len(sts[k].instructions) + LenSum(sts, k - 1)

\* The number of instructions the walk has handled
Handled == IF stageIdx = 0 THEN 0 ELSE LenSum(stages, stageIdx - 1) + insIdx

Returned == pc \in {"extracted", "done"}

\* C6: the instruction trace holds one entry per instruction of every stage
\* handled so far, in source order, each the instruction's source text,
\* after every step of the walk; the block returned holds them all.
C6_TraceIsSourceOrder ==
    /\ containerfile = SubSeq(SourceTexts, 1, Handled)
    /\ (Returned => block.containerfile = SourceTexts)

C6_Witness ==
    /\ pc = "done"
    /\ manifest.instructions =
           <<RunMake, FromRust, ExposeBad, VolumeBad, ExposeTcp, VolumeData>>
    /\ block.containerfile =
           <<"FROM rust:latest", "EXPOSE invalid/tcp", "VOLUME invalid",
             "EXPOSE 8080/tcp", "VOLUME /data">>

IsDirective(ins, word) == ins.kind = "Misc" /\ ins.instruction = word

RECURSIVE Concat(_)
Concat(seqs) == IF seqs = <<>> THEN <<>> ELSE Head(seqs) \o Concat(Tail(seqs))

\* The endpoints of the EXPOSE directives whose extraction succeeds
ExposeResults ==
    LET good == SelectSeq(StageInstructions,
                    LAMBDA ins : /\ IsDirective(ins, "EXPOSE")
                                 /\ parse_exposed_port(ins.arguments).tag = "Network")
    IN  [i \in 1..Len(good) |-> ExposedPort(parse_exposed_port(good[i].arguments))]

\* The mounts of the VOLUME directives whose extraction succeeds
VolumeResults ==
    LET good == SelectSeq(StageInstructions,
                    LAMBDA ins : /\ IsDirective(ins, "VOLUME")
                                 /\ parse_volume(ins.arguments).tag = "Volume")
    IN  Concat([i \in 1..Len(good) |-> parse_volume(good[i].arguments).mounts])

\* C7: exposed_ports is the sequence of the successful results of the EXPOSE
\* directives in source order, volumes the concatenation of the results of
\* the VOLUME directives; FROM, LABEL version="1.0", EXPOSE 8080/tcp,
\* VOLUME /data give that base image, labels[version] = 1.0, one endpoint
\* {8080, Tcp}, one mount /data and a trace of length 4.
C7_EndpointsAndMountsInOrder ==
    Returned =>
        /\ block.exposed_ports = ExposeResults
        /\ block.volumes = VolumeResults
        /\ manifest.instructions = SampleManifest =>
               /\ block.base_image = "rust:latest"
               /\ block.labels["version"] = "1.0"
               /\ block.exposed_ports = <<[port_number |-> 8080, protocol |-> "Tcp"]>>
               /\ block.volumes = <<VolumeMount(DataPath)>>
               /\ Len(block.containerfile) = 4

C7_Witness ==
    /\ pc = "done"
    /\ manifest.instructions = SampleManifest
    /\ block.exposed_ports = <<[port_number |-> 8080, protocol |-> "Tcp"]>>
    /\ block.volumes = <<VolumeMount(DataPath)>>

\* The text after the last separator of a path
AfterLastSlash(p) == LET parts == Split(p, "/") IN parts[Len(parts)]

\* C8: every model parse_dockerfile returns has a non-empty name; when the
\* manifest gave no stage name it is the base name of the path, directory
\* stripped and extension kept.
C8_NameNeverEmpty ==
    pc = "done" =>
        /\ block.name # <<>>
        /\ (name = <<>> => block.name = AfterLastSlash(path))
        /\ (name # <<>> => block.name = name)

C8_Witness ==
    /\ pc = "done"
    /\ path = <<"d", "i", "r", "/", "s", "a", "m", "p", "l", "e", ".", "d", "o", "c", "k", "e", "r", "f", "i", "l", "e">>
    /\ name = <<>>
    /\ block.name = <<"s", "a", "m", "p", "l", "e", ".", "d", "o", "c", "k", "e", "r", "f", "i", "l", "e">>

\* An EXPOSE argument with a bad port number
BadPortText(args) ==
    \/ NonNumeric(BeforeSlash(args))
    \/ BeforeSlash(args) \in C2_BadNumbers

\* A VOLUME argument in no recognized syntax
BadVolumeText(args) ==
    \/ FirstNonWhite(args) \notin {"[", "/"}
    \/ FirstNonWhite(args) = "[" /\ ~WellFormedJsonList(args)

BadDirective(ins) ==
    \/ IsDirective(ins, "EXPOSE") /\ BadPortText(ins.arguments)
    \/ IsDirective(ins, "VOLUME") /\ BadVolumeText(ins.arguments)

\* C9: a malformed argument of an EXPOSE or VOLUME directive never makes the
\* extraction fail: that directive leaves exposed_ports, volumes, labels and
\* base_image as they were, its source text is appended to the trace, and
\* the walk goes on to return a model.
C9_BadArgumentIsNoError ==
    [][ /\ (pc = "ins" /\ insIdx < Len(CurStage.instructions) /\ BadDirective(CurIns))
            => /\ pc' = "ins"
               /\ exposed_ports' = exposed_ports
               /\ volumes' = volumes
               /\ labels' = labels
               /\ base_image' = base_image
               /\ containerfile' = Append(containerfile, CurIns.text)
        /\ (pc \in {"stage", "ins"} => pc' \in {"stage", "ins", "extracted"})
      ]_vars

C9_Witness ==
    /\ pc = "done"
    /\ manifest.instructions = <<FromRust, ExposeBad, VolumeJsonCut>>
    /\ block.exposed_ports = <<>>
    /\ block.volumes = <<>>
    /\ block.containerfile =
           <<"FROM rust:latest", "EXPOSE invalid/tcp", "VOLUME [\"/data\",">>

---------------------------------------------------------------------------
(* Compose::validate *)

RestartValues_NoUnlessStopped == {"no", "always", "on-failure"}

\* The restart values validate accepts
RestartValues == {"no", "always", "on-failure", "unless-stopped"}

\* let service_names: HashSet<&String> = self.services.keys().collect()
service_names(c) == Keys(c.services)

network_names_AnyWhenAbsent(c) ==
    IF IsSome(c.networks) THEN Keys(Unwrap(c.networks)) ELSE {"front", "back"}

\* networks.as_ref().unwrap_or(t).keys().collect(), t an empty map
network_names(c) ==
    IF IsSome(c.networks) THEN Keys(Unwrap(c.networks)) ELSE Keys(EmptyMap)

RestartMessage(restart, n) ==
    <<"Invalid restart value '", restart, "' for service '", n, "'">>

NetworkMessage(network, n) ==
    <<"Referenced network '", network, "' not found for service '", n, "'">>

DependsMessage(dependency, n) ==
    <<"Referenced service '", dependency, "' in depends_on not found for service '",
      n, "'">>

RECURSIVE FirstAbsent(_, _)
\* for x in xs { if !known.contains(x) { return .. } }: the x it returns on
FirstAbsent(xs, known) ==
    IF xs = <<>> THEN None
    ELSE IF Head(xs) \notin known THEN Some(Head(xs))
    ELSE FirstAbsent(Tail(xs), known)

DependencyNames_ListOnly(depends_on) ==
    IF IsList(depends_on) THEN depends_on.List ELSE <<>>

\* match depends_on { List(l) => l.clone(), Map(k) => k.keys().cloned().collect() }
DependencyNames(depends_on) ==
    IF IsList(depends_on) THEN depends_on.List ELSE depends_on.Map.iter

\* The body of validate's loop for the service called n
ValidateService(c, n) ==
    LET service == c.services.entries[n]
        network == IF IsSome(service.networks)
                   THEN FirstAbsent(Unwrap(service.networks), network_names(c))
                   ELSE None
        dependency == IF IsSome(service.depends_on)
                      THEN FirstAbsent(DependencyNames(Unwrap(service.depends_on)),
                                       service_names(c))
                      ELSE None
    IN  IF IsSome(service.restart) /\ Unwrap(service.restart) \notin RestartValues
        THEN Err(RestartMessage(Unwrap(service.restart), n))
        ELSE IF IsSome(network) THEN Err(NetworkMessage(Unwrap(network), n))
        ELSE IF IsSome(dependency) THEN Err(DependsMessage(Unwrap(dependency), n))
        ELSE Ok

RECURSIVE ValidateFrom(_, _)
\* for (name, service) in &self.services { .. } Ok(())
ValidateFrom(c, order) ==
    IF order = <<>> THEN Ok
    ELSE LET v == ValidateService(c, Head(order))
         IN  IF v.ok THEN ValidateFrom(c, Tail(order)) ELSE v

validate(c) == ValidateFrom(c, c.services.iter)

---------------------------------------------------------------------------
(* Topology models validate is called on *)

ServiceKeys == {"web", "db"}
DependencyNameSet == {"db", "ghost"}
RestartTexts == {None, Some("always"), Some("sometimes")}
NetworkLists == {None, Some(<<"front">>)}

\* The orders in which the keys K can be visited
Orders(K) == {o \in [1..Cardinality(K) -> K] : {o[i] : i \in DOMAIN o} = K}

\* The maps that give every key of some K within S the value v, K of at most n keys
MapsOver(S, v, n) ==
    UNION {{HashMap([k \in K |-> v], o) : o \in Orders(K)} :
           K \in {K \in SUBSET S : Cardinality(K) <= n}}

DependsOnValues ==
    {None}
    \cup {Some(List(l)) : l \in SeqsUpTo(DependencyNameSet, MaxDeps)}
    \cup {Some(Map(m)) : m \in MapsOver(DependencyNameSet, "service_started", MaxDeps)}

Services ==
    {Service(r, n, d) : r \in RestartTexts, n \in NetworkLists, d \in DependsOnValues}

NetworkMaps == {None, Some(HashMap([k \in {"front"} |-> "bridge"], <<"front">>))}

\* A wider choice of restart values and of networks, tried on one service
WideRestartTexts ==
    {None, Some("no"), Some("always"), Some("on-failure"), Some("unless-stopped"),
     Some("sometimes"), Some("Always"), Some("")}
NetworkNameSet == {"front", "back"}
WideNetworkLists == {None} \cup {Some(l) : l \in SeqsUpTo(NetworkNameSet, MaxNets)}
WideNetworkMaps == {None} \cup {Some(m) : m \in MapsOver(NetworkNameSet, "bridge", MaxNets)}

\* parse_composefile is given a reader of a document that deserializes to a
\* model of up to two services, or to a model of one service with a wider
\* choice of restart and networks, or that does not deserialize
InitCompose ==
    /\ pc = "deserialize"
    /\ \/ \E K \in SUBSET ServiceKeys :
            \E entries \in [K -> Services], iter \in Orders(K),
               networks \in NetworkMaps :
                document = Deserialized(Compose(HashMap(entries, iter), networks))
       \/ \E r \in WideRestartTexts, n \in WideNetworkLists, d \in {None, Some(List(<<"web">>))},
             networks \in WideNetworkMaps :
                document = Deserialized(Compose(
                    HashMap([k \in {"web"} |-> Service(r, n, d)], <<"web">>), networks))
       \/ document = NotDeserialized
    /\ compose = Compose(EmptyMap, None)
    /\ verdict = NoVerdict
    /\ outcome = NoOutcome
    /\ NoDockerfile
    /\ NoExtractor
    /\ NoRender

\* let compose: Compose = serde_yaml::from_reader(..)?
Deserialize ==
    /\ pc = "deserialize"
    /\ IF document.ok
       THEN pc' = "validate" /\ compose' = document.model /\ outcome' = outcome
       ELSE pc' = "failed" /\ compose' = compose /\ outcome' = OutcomeErr
    /\ UNCHANGED <<document, verdict, exVars, dfVars, rndVars>>

\* compose.validate(), its result printed
Validate ==
    /\ pc = "validate"
    /\ verdict' = validate(compose)
    /\ pc' = "validated"
    /\ UNCHANGED <<document, compose, outcome, exVars, dfVars, rndVars>>

ReturnCompose_OnlyIfValid ==
    /\ pc = "validated"
    /\ outcome' = (IF verdict.ok THEN OutcomeOk(compose) ELSE OutcomeErr)
    /\ pc' = "returned"
    /\ UNCHANGED <<document, compose, verdict, exVars, dfVars, rndVars>>

\* println!("{:#?}", compose); Ok(compose)
ReturnCompose ==
    /\ pc = "validated"
    /\ outcome' = OutcomeOk(compose)
    /\ pc' = "returned"
    /\ UNCHANGED <<document, compose, verdict, exVars, dfVars, rndVars>>

NextCompose ==
    \/ Deserialize
    \/ Validate
    \/ ReturnCompose

SpecCompose == InitCompose /\ [][NextCompose]_vars

\* The names a service's depends_on gives, whichever its shape
DependsOnNames(service) ==
    IF ~IsSome(service.depends_on) THEN {}
    ELSE IF "List" \in DOMAIN Unwrap(service.depends_on)
    THEN {Unwrap(service.depends_on).List[i] :
              i \in DOMAIN Unwrap(service.depends_on).List}
    ELSE DOMAIN Unwrap(service.depends_on).Map.entries

\* The pairs <<service, dependency>> whose dependency is not a key of services
DanglingDependencies ==
    {p \in (DOMAIN compose.services.entries) \X DependencyNameSet :
        /\ p[2] \in DependsOnNames(compose.services.entries[p[1]])
        /\ p[2] \notin DOMAIN compose.services.entries}

\* No service has a restart or a network that validate objects to
RestartsAndNetworksFine ==
    \A n \in DOMAIN compose.services.entries :
        LET service == compose.services.entries[n]
        IN  /\ IsSome(service.restart) =>
                Unwrap(service.restart) \in {"no", "always", "on-failure", "unless-stopped"}
            /\ IsSome(service.networks) =>
                \A i \in DOMAIN Unwrap(service.networks) :
                    /\ IsSome(compose.networks)
                    /\ Unwrap(service.networks)[i] \in DOMAIN Unwrap(compose.networks).entries

\* C10: when some service's depends_on, a list of names or a map keyed by
\* names, names a service that is not a key of services, validate returns a
\* violation; when no restart and no network is at fault as well, the message
\* is the depends_on message for a missing dependency and the service that
\* names it.
C10_DanglingDependencyReported ==
    (pc = "validated" /\ DanglingDependencies # {}) =>
        /\ ~verdict.ok
        /\ verdict.message # <<>>
        /\ RestartsAndNetworksFine =>
            \E p \in DanglingDependencies :
                verdict.message =
                    <<"Referenced service '", p[2],
                      "' in depends_on not found for service '", p[1], "'">>

C10_Witness ==
    /\ pc = "validated"
    /\ DOMAIN compose.services.entries = {"web", "db"}
    /\ IsSome(compose.services.entries["web"].depends_on)
    /\ ~IsList(Unwrap(compose.services.entries["web"].depends_on))
    /\ DOMAIN Unwrap(compose.services.entries["web"].depends_on).Map.entries
           = {"db", "ghost"}
    /\ compose.services.entries["db"].depends_on = Some(List(<<"db">>))
    /\ RestartsAndNetworksFine
    /\ verdict = Err(<<"Referenced service '", "ghost",
                       "' in depends_on not found for service '", "web", "'">>)

\* The keys of the model's networks; none when it has no networks section
NetworkKeys == IF compose.networks = <<>> THEN {} ELSE DOMAIN compose.networks[1].entries

\* The pairs <<service, network>> whose network is not a key of networks
DanglingNetworks ==
    {p \in (DOMAIN compose.services.entries) \X NetworkNameSet :
        /\ compose.services.entries[p[1]].networks # <<>>
        /\ \E i \in DOMAIN compose.services.entries[p[1]].networks[1] :
               compose.services.entries[p[1]].networks[1][i] = p[2]
        /\ p[2] \notin NetworkKeys}

\* The services whose restart is given and is not one of the four values
BadRestarts ==
    {n \in DOMAIN compose.services.entries :
        /\ compose.services.entries[n].restart # <<>>
        /\ compose.services.entries[n].restart[1]
               \notin {"no", "always", "on-failure", "unless-stopped"}}

\* C11: when every restart is absent or one of no, always, on-failure and
\* unless-stopped, every network a service names is a key of networks and
\* every depends_on name is a key of services, validate returns Ok, in
\* whichever order the services are visited.
C11_ResolvedModelIsOk ==
    (pc = "validated" /\ BadRestarts = {} /\ DanglingNetworks = {}
        /\ DanglingDependencies = {})
    => verdict = Ok

C11_Witness ==
    /\ pc = "validated"
    /\ compose.services.iter = <<"db", "web">>
    /\ compose.services.entries["web"] =
           Service(Some("always"), Some(<<"front">>), Some(List(<<"db", "db">>)))
    /\ compose.services.entries["db"].depends_on # None
    /\ BadRestarts = {} /\ DanglingNetworks = {} /\ DanglingDependencies = {}
    /\ verdict = Ok

\* C12: when some service names a network that is not a key of the model's
\* networks, validate returns a violation; a model without a networks
\* section has no network keys.  When nothing else is at fault the message
\* is the network message for such a network and its service.
C12_DanglingNetworkReported ==
    (pc = "validated" /\ DanglingNetworks # {}) =>
        /\ ~verdict.ok
        /\ verdict.message # <<>>
        /\ (BadRestarts = {} /\ DanglingDependencies = {}) =>
            \E p \in DanglingNetworks :
                verdict.message = <<"Referenced network '", p[2],
                                    "' not found for service '", p[1], "'">>

C12_Witness ==
    /\ pc = "validated"
    /\ compose.networks = None
    /\ DOMAIN compose.services.entries = {"web", "db"}
    /\ compose.services.entries["db"].networks = Some(<<"front">>)
    /\ compose.services.entries["web"].networks = None
    /\ BadRestarts = {}
    /\ verdict = Err(<<"Referenced network '", "front",
                       "' not found for service '", "db", "'">>)

\* C13: validation is advisory and read-only.  The step that validates leaves
\* the model as it was; once the document has deserialized, parse_composefile
\* returns Ok of the deserialized model whether validate gave Ok or a
\* violation; it returns an error exactly when the document did not
\* deserialize, and then validate was never run.
C13_ValidationIsAdvisory ==
    /\ [](/\ pc = "returned" => /\ document.ok
                                /\ outcome = OutcomeOk(document.model)
          /\ outcome = OutcomeErr <=> (pc = "failed" /\ ~document.ok)
          /\ pc = "failed" => verdict = NoVerdict
          /\ pc \in {"validate", "validated", "returned"} => compose = document.model)
    /\ [][/\ pc = "validate" => compose' = compose
          /\ pc = "validated" => (pc' = "returned" /\ compose' = compose)
          /\ document' = document]_vars

C13_Witness ==
    /\ pc = "returned"
    /\ ~verdict.ok
    /\ verdict.message = <<"Invalid restart value '", "sometimes",
                           "' for service '", "web", "'">>
    /\ DOMAIN compose.services.entries = {"web", "db"}
    /\ outcome = [tag |-> "Ok", value |-> compose]
    /\ compose = document.model

\* C14: a source file that is missing or cannot be read is reported to the
\* caller of parse_dockerfile as an error value, before any parsing begins:
\* once the open has been tried the call has returned an error (and has not
\* ended in a panic).
C14_OpenFailureIsReturned ==
    (fileKind \in {"missing", "unreadable"} /\ pc # "open") => pc = "error"

---------------------------------------------------------------------------
(* gen_sysml.rs: the declarative package *)

\* The text is kept as the sequence of strings pushed onto package, each
\* the sequence of the fragments format! joins.

\* static PACKAGE_HEADER: the part and port definitions, the same for every
\* model
PACKAGE_HEADER == " { import ScalarValues::*; .. port def VolumePort { .. } "

\* impl Display for Protocol
ProtocolDisplay(protocol) == IF protocol = "Tcp" THEN "TCP" ELSE "UDP"

RECURSIVE LabelLines(_, _)
\* for (key, value) in &container.labels, in the order iter
LabelLines(lbls, iter) ==
    IF iter = <<>> THEN <<>>
    ELSE << <<"            attribute ", Head(iter), " redefines label = \"",
              lbls[Head(iter)], "\";\n">> >>
         \o LabelLines(lbls, Tail(iter))

PortLines_IndexFromOne(ports, index) ==
    << <<"            port port", ToDecimal(index + 1), ": NetworkPort {\n">>,
       <<"                protocol redefines protocol = Protocol::",
         ProtocolDisplay(ports[index + 1].protocol), ";\n">>,
       <<"                portNumber redefines portNumber = ",
         ToDecimal(ports[index + 1].port_number), ";\n">>,
       <<"            }\n">> >>

\* The four strings pushed for exposed_ports.iter().enumerate()'s item index
PortLines(ports, index) ==
    << <<"            port port", ToDecimal(index), ": NetworkPort {\n">>,
       <<"                protocol redefines protocol = Protocol::",
         ProtocolDisplay(ports[index + 1].protocol), ";\n">>,
       <<"                portNumber redefines portNumber = ",
         ToDecimal(ports[index + 1].port_number), ";\n">>,
       <<"            }\n">> >>

\* The three strings pushed for volumes.iter().enumerate()'s item index
VolumeLines(vols, index) ==
    << <<"            port volume", ToDecimal(index), ": VolumePort {\n">>,
       <<"                mountPoint redefines mountPoint = \"",
         vols[index + 1].mount_point, "\";\n">>,
       <<"            }\n">> >>

RECURSIVE AllPortLines(_, _)
AllPortLines(ports, index) ==
    IF index = Len(ports) THEN <<>>
    ELSE PortLines(ports, index) \o AllPortLines(ports, index + 1)

RECURSIVE AllVolumeLines(_, _)
AllVolumeLines(vols, index) ==
    IF index = Len(vols) THEN <<>>
    ELSE VolumeLines(vols, index) \o AllVolumeLines(vols, index + 1)

\* sysml_cargotecture_package(&container), the labels iterating in order iter
sysml_cargotecture_package(c, iter) ==
    << <<"package ", c.name, "Model">>,
       <<PACKAGE_HEADER>>,
       <<"part ", c.name, "System {\n">>,
       <<"        part ", c.name, "Base: BaseImage {\n">>,
       <<"                attribute imageName redefines imageName = \"",
         c.base_image, "\";\n">>,
       <<"            }\n">>,
       <<"        part ", c.name, ": Container {\n">> >>
    \o LabelLines(c.labels, iter)
    \o AllPortLines(c.exposed_ports, 0)
    \o AllVolumeLines(c.volumes, 0)
    \o << <<"        }\n">>, <<"    }\n">>, <<"}\n">> >>

---------------------------------------------------------------------------
(* Models given to the renderers *)

ContainerNames == {<<"w", "e", "b">>, <<"a", "p", "i">>}
LabelValues == [version |-> "1.0", team |-> "ops", maintainer |-> "me"]
LabelKeySets == {K \in SUBSET DOMAIN LabelValues : Cardinality(K) <= MaxLabels}
PortSamples ==
    {[port_number |-> 80, protocol |-> "Tcp"], [port_number |-> 53, protocol |-> "Udp"],
     [port_number |-> 65535, protocol |-> "Tcp"]}
MountSamples == {VolumeMount(DataPath), VolumeMount(AppPath)}

TraceTexts == {"FROM rust:latest", "RUN make", "EXPOSE 8080/tcp"}

RECURSIVE ActionBlocks(_, _)
\* One action block per trace entry, named by its index
ActionBlocks(trace, index) ==
    IF index = Len(trace) THEN <<>>
    ELSE << <<"action", ToDecimal(index), trace[index + 1]>> >>
         \o ActionBlocks(trace, index + 1)

RECURSIVE ControlEdges(_, _)
\* One control edge from each action to the next, for index up to last - 1
ControlEdges(last, index) ==
    IF index = last THEN <<>>
    ELSE << <<"control", ToDecimal(index), ToDecimal(index + 1)>> >>
         \o ControlEdges(last, index + 1)

\* The activity diagram of a trace of at least one entry
ActivityDiagram(trace) ==
    ActionBlocks(trace, 0) \o ControlEdges(Len(trace) - 1, 0)

\* A model as parse_dockerfile returns it, and two orders in which a map
\* with its labels can iterate; or a model with a trace of up to MaxTrace
\* entries
InitRender ==
    /\ pc = "render"
    /\ \/ \E n \in ContainerNames, K \in LabelKeySets,
             e \in SeqsUpTo(PortSamples, MaxPorts),
             v \in SeqsUpTo(MountSamples, MaxMounts) :
               /\ container = ParsedContainer(n, "rust:latest",
                                              [k \in K |-> LabelValues[k]], e, v,
                                              <<"FROM rust:latest">>)
               /\ labelIter \in Orders(K)
               /\ twinIter \in Orders(K)
       \/ \E n \in ContainerNames, c \in SeqsUpTo(TraceTexts, MaxTrace) :
               /\ container = ParsedContainer(n, "", [k \in {} |-> ""], <<>>, <<>>, c)
               /\ labelIter = <<>>
               /\ twinIter = <<>>
    /\ package = <<>>
    /\ twinPackage = <<>>
    /\ activity = <<>>
    /\ NoDockerfile
    /\ NoExtractor
    /\ NoCompose

\* gen_sysml::sysml_cargotecture_package(&container), and the same call on a
\* model of equal content
RenderPackage ==
    /\ pc = "render"
    /\ package' = sysml_cargotecture_package(container, labelIter)
    /\ twinPackage' = sysml_cargotecture_package(container, twinIter)
    /\ pc' = "rendered"
    /\ UNCHANGED <<container, labelIter, twinIter, activity, exVars, dfVars, cmpVars>>

\* The activity diagram of a model with at least one trace entry
RenderActivity ==
    /\ pc = "render"
    /\ Len(container.containerfile) >= 1
    /\ activity' = ActivityDiagram(container.containerfile)
    /\ pc' = "drawn"
    /\ UNCHANGED <<container, labelIter, twinIter, package, twinPackage,
                   exVars, dfVars, cmpVars>>

\* The activity diagram of a model with no trace entry: the number of edges,
\* the unsigned 0 - 1, underflows.  A build that checks overflow panics; one
\* that does not wraps to the largest index and the edges never end.
ActivityUnderflows ==
    /\ pc = "render"
    /\ Len(container.containerfile) = 0
    /\ pc' \in {"panic", "runaway"}
    /\ UNCHANGED <<rndVars, exVars, dfVars, cmpVars>>

NextRender ==
    \/ RenderPackage
    \/ RenderActivity
    \/ ActivityUnderflows

SpecRender == InitRender /\ [][NextRender]_vars

\* C15: two models with equal name, base_image, labels, exposed_ports and
\* volumes render to the same package text, also with two or more labels.
C15_PackageIsDeterministic ==
    pc = "rendered" => package = twinPackage

\* The pushes of package whose first fragment is head
Pushes(head) == {i \in DOMAIN package : package[i][1] = head}
\* The pushes of package whose last fragment is tail
PushesEnding(tail) == {i \in DOMAIN package : package[i][Len(package[i])] = tail}
\* The place of push i among the pushes of P, counted from 0
Rank(P, i) == Cardinality({j \in P : j < i})

PortHeads == Pushes("            port port")
VolumeHeads == Pushes("            port volume")
LabelPushes == Pushes("            attribute ")

\* C16: for a model with L labels, E exposed ports and M mounts the package
\* has one base-image part, one container part, L label redefinitions (one
\* per label, with its value), E network ports named port0..port(E-1) and M
\* volume ports named volume0..volume(M-1); the i-th network port carries
\* the protocol and number of exposed_ports[i], the i-th volume port the
\* mount_point of volumes[i]; the names of the sub-parts are all different.
C16_OnePartPerModelItem ==
    pc = "rendered" =>
        LET L == Cardinality(DOMAIN container.labels)
            E == Len(container.exposed_ports)
            M == Len(container.volumes)
        IN  /\ Cardinality(PushesEnding("Base: BaseImage {\n")) = 1
            /\ Cardinality(PushesEnding(": Container {\n")) = 1
            /\ Len(package) = 10 + L + 4 * E + 3 * M
            /\ Cardinality(LabelPushes) = L
            /\ \A k \in DOMAIN container.labels :
                   Cardinality({i \in LabelPushes :
                       package[i][2] = k /\ package[i][4] = container.labels[k]}) = 1
            /\ Cardinality(PortHeads) = E
            /\ \A i \in PortHeads :
                   LET port == container.exposed_ports[Rank(PortHeads, i) + 1]
                   IN  /\ package[i][2] = ToDecimal(Rank(PortHeads, i))
                       /\ package[i + 1][2] =
                              (IF port.protocol = "Udp" THEN "UDP" ELSE "TCP")
                       /\ package[i + 2][2] = ToDecimal(port.port_number)
            /\ Cardinality(VolumeHeads) = M
            /\ \A i \in VolumeHeads :
                   /\ package[i][2] = ToDecimal(Rank(VolumeHeads, i))
                   /\ package[i + 1][2] =
                          container.volumes[Rank(VolumeHeads, i) + 1].mount_point
            /\ Cardinality({<<"port", package[i][2]>> : i \in PortHeads}
                           \cup {<<"volume", package[i][2]>> : i \in VolumeHeads})
                   = E + M

C16_Witness ==
    /\ pc = "rendered"
    /\ DOMAIN container.labels = {"version", "team"}
    /\ container.exposed_ports = <<[port_number |-> 53, protocol |-> "Udp"],
                                   [port_number |-> 65535, protocol |-> "Tcp"]>>
    /\ container.volumes = <<VolumeMount(AppPath), VolumeMount(DataPath)>>
    /\ Len(package) = 26
    /\ package[14] = <<"            port port", <<"1">>, ": NetworkPort {\n">>
    /\ package[15][2] = "TCP"
    /\ package[16][2] = <<"6", "5", "5", "3", "5">>
    /\ package[21] = <<"            port volume", <<"1">>, ": VolumePort {\n">>
    /\ package[22][2] = <<"/", "d", "a", "t", "a">>

ActionPushes == {i \in DOMAIN activity : activity[i][1] = "action"}
ControlPushes == {i \in DOMAIN activity : activity[i][1] = "control"}

\* For a trace of k >= 1 entries: k action blocks in trace order, then k - 1
\* control edges, the i-th from action i - 1 to action i
ActivityMatchesTrace ==
    LET k == Len(container.containerfile)
    IN  /\ Cardinality(ActionPushes) = k
        /\ \A i \in 1..k : activity[i] =
               <<"action", ToDecimal(i - 1), container.containerfile[i]>>
        /\ Cardinality(ControlPushes) = k - 1
        /\ \A i \in 1..(k - 1) : activity[k + i] =
               <<"control", ToDecimal(i - 1), ToDecimal(i)>>
        /\ Len(activity) = 2 * k - 1

\* C17: the activity diagram of a model whose trace has k >= 1 entries has k
\* action blocks in trace order and k - 1 control edges, one between each
\* two consecutive actions; with k = 0 the rendering is guarded: it ends and
\* draws nothing, instead of underflowing.
C17_ActivityBlocksAndEdges ==
    pc \notin {"render", "rendered"} =>
        IF Len(container.containerfile) >= 1
        THEN pc = "drawn" /\ ActivityMatchesTrace
        ELSE pc = "drawn" /\ activity = <<>>

\* The part of C17 about traces of at least one entry
C17_DrawnActivityMatchesTrace == pc = "drawn" => ActivityMatchesTrace

\* Inputs with a second '/': a valid port, then a right segment that holds
\* a '/' and so is neither tcp nor udp
C18_Cases ==
    {[text |-> ToDecimal(n) \o t, want |-> Network(n, "Tcp")] :
        n \in ValidPorts,
        t \in { <<"/", "u", "d", "p", "/", "x">>, <<"/", "t", "c", "p", "/", "u", "d", "p">>,
                <<"/", "/", "u", "d", "p">> }}

\* C18: parse_exposed_port splits on the first '/' only, so the whole text
\* after it decides the protocol: an input with a second '/', such as
\* "8080/udp/x", has an unrecognized right segment and gives Tcp.
C18_SplitsOnFirstSlashOnly ==
    pc = "done" => \A c \in C18_Cases : input = c.text => result = c.want

\* The FROM instructions of the manifest, in document order
FromInstructions ==
    LET ins == manifest.instructions
        F[i \in 0..Len(ins)] ==
            IF i = 0 THEN <<>>
            ELSE IF ins[i].kind = "From" THEN Append(F[i - 1], ins[i]) ELSE F[i - 1]
    IN  F[Len(ins)]

\* Two names that differ at most in the case of their letters (the manifest
\* parser gives stage names in lower case)
SameUpToCase(a, b) ==
    /\ Len(a) = Len(b)
    /\ \A i \in 1..Len(a) : a[i] = b[i] \/ {a[i], b[i]} \in {{"B", "b"}, {"R", "r"}}

LabelPairs ==
    LET ins == StageInstructions
        P[i \in 0..Len(ins)] ==
            IF i = 0 THEN <<>>
            ELSE IF ins[i].kind = "Label" THEN P[i - 1] \o ins[i].labels ELSE P[i - 1]
    IN  P[Len(ins)]

\* The places of LabelPairs that give the key k
PairsOf(k) == {i \in DOMAIN LabelPairs : LabelPairs[i].name = k}
Max(S) == CHOOSE x \in S : \A y \in S : y <= x

\* C20: after extraction base_image is the image of the last FROM in source
\* order, the labels hold exactly the keys some LABEL pair gives, and each
\* key's value is that of the last pair with the key, across instructions
\* and stages.
C20_LastWriteWins ==
    Returned =>
        /\ block.base_image =
               (IF FromInstructions = <<>> THEN ""
                ELSE FromInstructions[Len(FromInstructions)].image)
        /\ DOMAIN block.labels = {LabelPairs[i].name : i \in DOMAIN LabelPairs}
        /\ \A k \in DOMAIN block.labels :
               block.labels[k] = LabelPairs[Max(PairsOf(k))].value

C20_Witness ==
    /\ pc = "done"
    /\ manifest.instructions = <<FromRun, LabelV2, LabelTwice, LabelV1>>
    /\ block.base_image = "debian"
    /\ DOMAIN block.labels = {"version", "team"}
    /\ block.labels["version"] = "1.0"
    /\ block.labels["team"] = "ops"

====
